---- MODULE Spec2Model ----
(***************************************************************************)
(* syslog-wrapper: a supervisor spawns a child, two reader threads turn    *)
(* the child's stdout and stderr into Line items on an mpsc channel, a     *)
(* delivery thread connects to the receiver, pops the items and writes one *)
(* syslog record per line, and the supervisor exits with the child's code. *)
(* The model follows src/src/main.rs: one action per thread step.          *)
(***************************************************************************)
EXTENDS Integers, Sequences, FiniteSets, TLC

\* ------------------------------------------------------------ bounds
\* Total number of bytes the child writes over both output streams.
MaxBytes == 3

\* The capacity the design gives the Message Queue (a fixed small constant),
\* scaled to the model; the channel of the code has none.
QueueCapacity == 2

\* ------------------------------------------------------------ constants
SYSLOG_PRIORITY == "22"
SYSLOG_VERSION == "1"
\* exit(40) when the child cannot be launched.
SpawnFailureCode == 40
\* Mutant: the connect failure reuses the spawn failure's code.
ConnectFailureCodeSame == SpawnFailureCode
\* exit(127) when TcpStream::connect fails.
ConnectFailureCode == 127
\* exit(40) when the child's status carries no exit code.
NoExitCode == 40
\* exit(40) when waiting for the child fails.
WaitErrorCode == 40
\* A panic that unwinds the main thread ends the process with status 101.
PanicExitCode == 101
\* #[clap(.., default_value_t = 10)] max_retries: u8
DefaultMaxRetries == 10
\* Exponential::from_millis(10).take(3): three delays, so three retries.
MaxRetries == 3
\* Exponential::from_millis(10): the first delay and the growth factor.
BackoffBase == 10

\* ------------------------------------------------------------ inputs
NL == "\n"
\* "a" stands for any UTF-8 byte other than newline, "bad" for a byte that
\* makes the line invalid UTF-8.
Byte == {"a", NL, "bad"}
Streams == {"stdout", "stderr"}
\* Exit codes the child may declare (status.code() is Some(c)).
ExitCodes == {0, 40, 69}
ChildStatuses ==
    [kind : {"code"}, code : ExitCodes]
        \cup {[kind |-> "nocode", code |-> 0], [kind |-> "waiterr", code |-> 0]}
NoStatus == [kind |-> "unknown", code |-> 0]

RECURSIVE SeqsUpTo(_)
SeqsUpTo(n) ==
    IF n = 0 THEN {<<>>}
    ELSE LET shorter == SeqsUpTo(n - 1)
         IN shorter \cup {Append(s, b) : s \in {t \in shorter : Len(t) = n - 1}, b \in Byte}

Outputs ==
    {o \in [Streams -> SeqsUpTo(MaxBytes)] : Len(o["stdout"]) + Len(o["stderr"]) <= MaxBytes}

VARIABLES
    output,      \* the child's whole output per stream (never changes)
    stream,      \* per stream: the bytes not yet read
    rpc,         \* per reader: "idle", "read", "send", "done", "panicked"
    line,        \* per reader: the local `line` between read_line and send
    readLog,     \* history: the lines each reader got from read_line
    queue,       \* the channel's buffer
    rxAlive,     \* the Receiver has not been dropped
    pushLog,     \* history: every item ever sent into the channel
    popLog,      \* history: every item the delivery thread received
    mpc,         \* the supervisor's position in main
    spawned,     \* spawn_result: "pending", "ok", "failed"
    dpc,         \* the delivery thread's position
    cur,         \* the delivery thread's local `str`
    wire,        \* the records written to the TLS stream
    connects,    \* history: number of TcpStream::connect calls
    listening,   \* environment: something accepts connections at host:port
    trustFile,   \* environment: --add-trusted-certificates: "none", "ok", "bad"
    serverCert,  \* environment: the receiver's certificate: "public", "private"
    maxRetries,  \* environment: args.max_retries
    retries,     \* retry(): the delays taken from the iterator so far
    slept,       \* history: the delays retry() slept, in milliseconds
    shook,       \* the TLS handshake was done on the current connection
    fate,        \* history: per popped item "held", "written", "lost", "eof"
    consec,      \* history: failures since the last successful write
    childStatus, \* what child_process.wait() returned
    exited,      \* the wrapper process has terminated
    exitCode,    \* its exit status
    cause        \* history: which statement ended the process

vars ==
    <<output, stream, rpc, line, readLog, queue, rxAlive, pushLog, popLog, mpc,
      spawned, dpc, cur, wire, connects, listening, trustFile, serverCert, maxRetries,
      retries, slept, shook, fate, consec, childStatus, exited, exitCode, cause>>

envVars == <<output, listening, trustFile, serverCert, maxRetries>>
senderVars == <<retries, slept, shook, fate, consec>>
readerVars == <<stream, rpc, line, readLog>>
chanVars == <<queue, rxAlive, pushLog>>
deliveryVars == <<dpc, cur, wire, connects, popLog>>
exitVars == <<exited, exitCode, cause>>

\* ------------------------------------------------------------ items
\* DeliverValue::Line(String); src is history (which reader made the item).
LineItem(s, text) == [kind |-> "Line", src |-> s, text |-> text]
\* DeliverValue::Eof()
EofItem(s) == [kind |-> "Eof", src |-> s, text |-> <<>>]
NoItem == [kind |-> "None", src |-> "none", text |-> <<>>]

\* ------------------------------------------------------------ pure functions
\* BufRead::read_line: the number of bytes up to and including the first
\* newline, or all remaining bytes when there is none; 0 only at end of stream.
ReadLineLen(bytes) ==
    IF \E i \in 1..Len(bytes) : bytes[i] = NL
    THEN CHOOSE i \in 1..Len(bytes) : bytes[i] = NL /\ \A j \in 1..(i - 1) : bytes[j] # NL
    ELSE Len(bytes)

\* Mutant: the line is returned without its terminator (as lines() would).
ReadLineTextStripped(bytes) ==
    IF ReadLineLen(bytes) > 0 /\ bytes[ReadLineLen(bytes)] = NL
    THEN SubSeq(bytes, 1, ReadLineLen(bytes) - 1)
    ELSE SubSeq(bytes, 1, ReadLineLen(bytes))

ReadLineText(bytes) == SubSeq(bytes, 1, ReadLineLen(bytes))
ReadLineRest(bytes) == SubSeq(bytes, ReadLineLen(bytes) + 1, Len(bytes))
\* read_line returns Err(InvalidData) when the bytes are not valid UTF-8.
ValidUtf8(bytes) == \A i \in 1..Len(bytes) : bytes[i] # "bad"

\* format!("<{SYSLOG_PRIORITY}>{SYSLOG_VERSION} {timestamp} {hostname} {appname} - - - {str}")
Format(item) ==
    [header |-> <<"<", SYSLOG_PRIORITY, ">", SYSLOG_VERSION, "timestamp", "hostname",
                   "appname", "-", "-", "-">>,
     msg |-> item.text,
     src |-> item.src]

\* The i32 given to exit() as the parent sees it.
ExitStatus(c) == c % 256

\* The TLS handshake succeeds when the receiver's certificate chains to the
\* root store: the webpki roots plus the certificate of the trust file.
HandshakeOk == serverCert = "public" \/ trustFile = "ok"

\* ------------------------------------------------------------ initial state
Init ==
    /\ output \in Outputs
    /\ stream = output
    /\ rpc = [s \in Streams |-> "idle"]
    /\ line = [s \in Streams |-> <<>>]
    /\ readLog = [s \in Streams |-> <<>>]
    /\ queue = <<>>
    /\ rxAlive = TRUE
    /\ pushLog = <<>>
    /\ popLog = <<>>
    /\ mpc = "spawn"
    /\ spawned = "pending"
    /\ dpc = "idle"
    /\ cur = NoItem
    /\ wire = <<>>
    /\ connects = 0
    /\ listening \in BOOLEAN
    /\ trustFile \in {"none", "ok", "bad"}
    /\ serverCert \in {"public", "private"}
    /\ maxRetries = DefaultMaxRetries
    /\ retries = 0
    /\ slept = <<>>
    /\ shook = FALSE
    /\ fate = <<>>
    /\ consec = 0
    /\ childStatus = NoStatus
    /\ exited = FALSE
    /\ exitCode = 0
    /\ cause = "running"

\* std::process::exit(code), or the main thread unwinding from a panic.
Exit(code, why) ==
    /\ exited' = TRUE
    /\ exitCode' = ExitStatus(code)
    /\ cause' = why

\* Mutant: the channel hands out the newest item first.
PushFront(item) ==
    /\ queue' = <<item>> \o queue
    /\ pushLog' = Append(pushLog, item)
    /\ UNCHANGED rxAlive

\* Sender::send on the unbounded channel: never blocks.
Push(item) ==
    /\ queue' = Append(queue, item)
    /\ pushLog' = Append(pushLog, item)
    /\ UNCHANGED rxAlive

\* The delivery thread panics: its closure unwinds and drops the Receiver
\* together with whatever the channel still buffers.
DeliveryPanic ==
    /\ dpc' = "panicked"
    /\ rxAlive' = FALSE
    /\ queue' = <<>>

\* ------------------------------------------------------------ supervisor
\* Mutant: the spawn error is only reported; main goes on to start the threads.
MainSpawnContinues ==
    /\ ~exited /\ mpc = "spawn"
    /\ \E ok \in BOOLEAN : spawned' = IF ok THEN "ok" ELSE "failed"
    /\ mpc' = "start_stdout"
    /\ UNCHANGED <<envVars, senderVars, readerVars, chanVars, deliveryVars, childStatus,
                   exitVars>>

\* Command::new(..).spawn(): Err => eprintln, exit(40).
MainSpawn ==
    /\ ~exited /\ mpc = "spawn"
    /\ \E ok \in BOOLEAN :
        IF ok
        THEN /\ spawned' = "ok"
             /\ mpc' = "start_stdout"
             /\ UNCHANGED exitVars
        ELSE /\ spawned' = "failed"
             /\ Exit(SpawnFailureCode, "spawn")
             /\ UNCHANGED mpc
    /\ UNCHANGED <<envVars, senderVars, readerVars, chanVars, deliveryVars, childStatus>>

\* thread::spawn of one reader's loop.
StartReader(s, next) ==
    /\ rpc' = [rpc EXCEPT ![s] = "read"]
    /\ mpc' = next
    /\ UNCHANGED <<envVars, senderVars, spawned, stream, line, readLog, chanVars,
                   deliveryVars, childStatus, exitVars>>

MainStartStdout ==
    /\ ~exited /\ mpc = "start_stdout"
    /\ StartReader("stdout", "start_stderr")

MainStartStderr ==
    /\ ~exited /\ mpc = "start_stderr"
    /\ StartReader("stderr", "start_delivery")

\* thread::spawn of the delivery closure.
MainStartDelivery ==
    /\ ~exited /\ mpc = "start_delivery"
    /\ dpc' = "connect"
    /\ mpc' = "join_stderr"
    /\ UNCHANGED <<envVars, senderVars, spawned, readerVars, chanVars, cur, wire,
                   connects, popLog, childStatus, exitVars>>

\* Mutant: the supervisor does not wait for the reader before going on.
JoinReaderNoWait(s, next) ==
    /\ IF rpc[s] # "panicked"
       THEN /\ mpc' = next
            /\ UNCHANGED exitVars
       ELSE /\ Exit(PanicExitCode, "panic")
            /\ UNCHANGED mpc
    /\ UNCHANGED <<envVars, senderVars, spawned, readerVars, chanVars, deliveryVars,
                   childStatus>>

\* handler.join().unwrap(): blocks until the reader thread has ended; a reader
\* that panicked makes join return Err and unwrap panic in main.
JoinReader(s, next) ==
    /\ rpc[s] \in {"done", "panicked"}
    /\ IF rpc[s] = "done"
       THEN /\ mpc' = next
            /\ UNCHANGED exitVars
       ELSE /\ Exit(PanicExitCode, "panic")
            /\ UNCHANGED mpc
    /\ UNCHANGED <<envVars, senderVars, spawned, readerVars, chanVars, deliveryVars,
                   childStatus>>

MainJoinStderr ==
    /\ ~exited /\ mpc = "join_stderr"
    /\ JoinReader("stderr", "join_stdout")

MainJoinStdout ==
    /\ ~exited /\ mpc = "join_stdout"
    /\ JoinReader("stdout", "send_eof")

\* sender.send(DeliverValue::Eof()).expect(..): Err when the Receiver is gone.
MainSendEof ==
    /\ ~exited /\ mpc = "send_eof"
    /\ IF rxAlive
       THEN /\ Push(EofItem("main"))
            /\ mpc' = "join_delivery"
            /\ UNCHANGED exitVars
       ELSE /\ Exit(PanicExitCode, "panic")
            /\ UNCHANGED <<mpc, chanVars>>
    /\ UNCHANGED <<envVars, senderVars, spawned, readerVars, deliveryVars, childStatus>>

\* Mutant: the delivery thread is not joined before the child is waited for.
MainJoinDeliveryDetached ==
    /\ ~exited /\ mpc = "join_delivery"
    /\ IF dpc # "panicked"
       THEN /\ mpc' = "wait_child"
            /\ UNCHANGED exitVars
       ELSE /\ Exit(PanicExitCode, "panic")
            /\ UNCHANGED mpc
    /\ UNCHANGED <<envVars, senderVars, spawned, readerVars, chanVars, deliveryVars,
                   childStatus>>

\* A supervisor that discards the result of delivery.join().
MainJoinDeliveryIgnoresPanic ==
    /\ ~exited /\ mpc = "join_delivery"
    /\ dpc \in {"done", "failed", "panicked"}
    /\ mpc' = "wait_child"
    /\ UNCHANGED <<envVars, senderVars, spawned, readerVars, chanVars, deliveryVars,
                   childStatus, exitVars>>

\* delivery.join().unwrap(): join is Err only when the thread panicked; a
\* thread that returned, whatever value, lets main go on.
MainJoinDelivery ==
    /\ ~exited /\ mpc = "join_delivery"
    /\ dpc \in {"done", "failed", "panicked"}
    /\ IF dpc # "panicked"
       THEN /\ mpc' = "wait_child"
            /\ UNCHANGED exitVars
       ELSE /\ Exit(PanicExitCode, "panic")
            /\ UNCHANGED mpc
    /\ UNCHANGED <<envVars, senderVars, spawned, readerVars, chanVars, deliveryVars,
                   childStatus>>

\* Mutant: the child's code is dropped; a finished pipeline exits with 0.
MainWaitZero ==
    /\ ~exited /\ mpc = "wait_child"
    /\ \E st \in ChildStatuses :
        /\ childStatus' = st
        /\ CASE st.kind = "code" -> Exit(0, "child")
             [] st.kind = "nocode" -> Exit(NoExitCode, "nocode")
             [] st.kind = "waiterr" -> Exit(WaitErrorCode, "waiterr")
    /\ UNCHANGED <<envVars, senderVars, spawned, readerVars, chanVars, deliveryVars, mpc>>

\* match child_process.wait(): Some(status) => exit(status); None => exit(40);
\* Err => exit(40).
MainWait ==
    /\ ~exited /\ mpc = "wait_child"
    /\ \E st \in ChildStatuses :
        /\ childStatus' = st
        /\ CASE st.kind = "code" -> Exit(st.code, "child")
             [] st.kind = "nocode" -> Exit(NoExitCode, "nocode")
             [] st.kind = "waiterr" -> Exit(WaitErrorCode, "waiterr")
    /\ UNCHANGED <<envVars, senderVars, spawned, readerVars, chanVars, deliveryVars, mpc>>

\* ------------------------------------------------------------ line readers
\* Mutant: a reader that meets end of stream pushes its own end marker.
ReaderReadMarksEnd(s) ==
    /\ ~exited /\ rpc[s] = "read"
    /\ LET text == ReadLineText(stream[s])
       IN /\ stream' = [stream EXCEPT ![s] = ReadLineRest(stream[s])]
          /\ IF ~ValidUtf8(text)
             THEN /\ rpc' = [rpc EXCEPT ![s] = "panicked"]
                  /\ UNCHANGED <<line, readLog, chanVars>>
             ELSE IF Len(text) = 0
             THEN /\ rpc' = [rpc EXCEPT ![s] = "done"]
                  /\ IF rxAlive THEN Push(EofItem(s)) ELSE UNCHANGED chanVars
                  /\ UNCHANGED <<line, readLog>>
             ELSE /\ rpc' = [rpc EXCEPT ![s] = "send"]
                  /\ line' = [line EXCEPT ![s] = text]
                  /\ readLog' = [readLog EXCEPT ![s] = Append(@, text)]
                  /\ UNCHANGED chanVars
    /\ UNCHANGED <<envVars, senderVars, spawned, deliveryVars, mpc, childStatus,
                   exitVars>>

\* One pass of the loop up to the send: read_line(..).expect(..), then
\* `if len == 0 { break; }`.
ReaderRead(s) ==
    /\ ~exited /\ rpc[s] = "read"
    /\ LET text == ReadLineText(stream[s])
       IN /\ stream' = [stream EXCEPT ![s] = ReadLineRest(stream[s])]
          /\ IF ~ValidUtf8(text)
             THEN /\ rpc' = [rpc EXCEPT ![s] = "panicked"]
                  /\ UNCHANGED <<line, readLog>>
             ELSE IF Len(text) = 0
             THEN /\ rpc' = [rpc EXCEPT ![s] = "done"]
                  /\ UNCHANGED <<line, readLog>>
             ELSE /\ rpc' = [rpc EXCEPT ![s] = "send"]
                  /\ line' = [line EXCEPT ![s] = text]
                  /\ readLog' = [readLog EXCEPT ![s] = Append(@, text)]
    /\ UNCHANGED <<envVars, senderVars, spawned, chanVars, deliveryVars, mpc,
                   childStatus, exitVars>>

\* Mutant: `let _ = sender.send(..)`, a reader that drops the line and goes
\* on when the Receiver is gone.
ReaderSendIgnoresError(s) ==
    /\ ~exited /\ rpc[s] = "send"
    /\ IF rxAlive
       THEN Push(LineItem(s, line[s]))
       ELSE UNCHANGED chanVars
    /\ rpc' = [rpc EXCEPT ![s] = "read"]
    /\ line' = [line EXCEPT ![s] = <<>>]
    /\ UNCHANGED <<envVars, senderVars, spawned, stream, readLog, deliveryVars, mpc,
                   childStatus, exitVars>>

\* Mutant: a sync_channel of QueueCapacity items, whose send blocks when full.
ReaderSendSync(s) ==
    /\ ~exited /\ rpc[s] = "send"
    /\ rxAlive => Len(queue) < QueueCapacity
    /\ IF rxAlive
       THEN /\ Push(LineItem(s, line[s]))
            /\ rpc' = [rpc EXCEPT ![s] = "read"]
       ELSE /\ rpc' = [rpc EXCEPT ![s] = "panicked"]
            /\ UNCHANGED chanVars
    /\ line' = [line EXCEPT ![s] = <<>>]
    /\ UNCHANGED <<envVars, senderVars, spawned, stream, readLog, deliveryVars, mpc,
                   childStatus, exitVars>>

\* sender.send(DeliverValue::Line(line)).expect("receiver hung up :(")
ReaderSend(s) ==
    /\ ~exited /\ rpc[s] = "send"
    /\ IF rxAlive
       THEN /\ Push(LineItem(s, line[s]))
            /\ rpc' = [rpc EXCEPT ![s] = "read"]
       ELSE /\ rpc' = [rpc EXCEPT ![s] = "panicked"]
            /\ UNCHANGED chanVars
    /\ line' = [line EXCEPT ![s] = <<>>]
    /\ UNCHANGED <<envVars, senderVars, spawned, stream, readLog, deliveryVars, mpc,
                   childStatus, exitVars>>

\* ------------------------------------------------------------ delivery thread
\* Mutant: connect(..).unwrap(), so a refused connection only panics the thread.
DeliveryConnectUnwrap ==
    /\ ~exited /\ dpc = "connect"
    /\ connects' = connects + 1
    /\ IF listening
       THEN /\ dpc' = "trust"
            /\ UNCHANGED chanVars
       ELSE /\ DeliveryPanic
            /\ UNCHANGED pushLog
    /\ UNCHANGED <<envVars, senderVars, spawned, readerVars, cur, wire, popLog, mpc,
                   childStatus, exitVars>>

\* TcpStream::connect(..).unwrap_or_else(|e| { eprintln!(..); exit(127) })
DeliveryConnect ==
    /\ ~exited /\ dpc = "connect"
    /\ connects' = connects + 1
    /\ IF listening
       THEN /\ dpc' = "trust"
            /\ UNCHANGED exitVars
       ELSE /\ Exit(ConnectFailureCode, "connect")
            /\ UNCHANGED dpc
    /\ UNCHANGED <<envVars, senderVars, spawned, readerVars, chanVars, cur, wire,
                   popLog, mpc, childStatus>>

\* Building the root store: a trust file that cannot be opened or parsed
\* panics the delivery thread; then the TLS client is set up (no I/O yet).
DeliveryTrust ==
    /\ ~exited /\ dpc = "trust"
    /\ IF trustFile = "bad"
       THEN /\ DeliveryPanic
            /\ UNCHANGED pushLog
       ELSE /\ dpc' = "recv"
            /\ UNCHANGED chanVars
    /\ UNCHANGED <<envVars, senderVars, spawned, readerVars, cur, wire, connects,
                   popLog, mpc, childStatus, exitVars>>

\* Mutant: a delivery loop without the `Eof => break` arm; it goes back to
\* recv(), which blocks for as long as main holds its Sender.
DeliveryRecvIgnoresEof ==
    /\ ~exited /\ dpc = "recv"
    /\ queue # <<>>
    /\ LET item == Head(queue)
       IN /\ queue' = Tail(queue)
          /\ popLog' = Append(popLog, item)
          /\ IF item.kind = "Eof"
             THEN UNCHANGED <<dpc, cur>>
             ELSE /\ dpc' = "write"
                  /\ cur' = item
    /\ UNCHANGED <<envVars, senderVars, spawned, readerVars, rxAlive, pushLog, wire, connects,
                   mpc, childStatus, exitVars>>

\* receiver.recv().unwrap(): blocks while the channel is empty; Eof => break,
\* which ends the thread and drops the Receiver.
DeliveryRecv ==
    /\ ~exited /\ dpc = "recv"
    /\ queue # <<>>
    /\ LET item == Head(queue)
       IN /\ queue' = Tail(queue)
          /\ popLog' = Append(popLog, item)
          /\ IF item.kind = "Eof"
             THEN /\ dpc' = "done"
                  /\ rxAlive' = FALSE
                  /\ UNCHANGED cur
             ELSE /\ dpc' = "write"
                  /\ cur' = item
                  /\ UNCHANGED rxAlive
    /\ UNCHANGED <<envVars, senderVars, spawned, readerVars, pushLog, wire, connects,
                   mpc, childStatus, exitVars>>

\* stream.write(formatted.as_bytes()).unwrap(): the first write carries the
\* TLS handshake; an Err (handshake refused, connection lost) panics.
DeliveryWrite ==
    /\ ~exited /\ dpc = "write"
    /\ \E io \in BOOLEAN :
        IF io /\ (wire # <<>> \/ HandshakeOk)
        THEN /\ wire' = Append(wire, Format(cur))
             /\ dpc' = "recv"
             /\ UNCHANGED chanVars
        ELSE /\ DeliveryPanic
             /\ UNCHANGED <<wire, pushLog>>
    /\ cur' = NoItem
    /\ UNCHANGED <<envVars, senderVars, spawned, readerVars, connects, popLog, mpc,
                   childStatus, exitVars>>

\* ------------------------------------------------------------ specification
Next ==
    \/ MainSpawn
    \/ MainStartStdout
    \/ MainStartStderr
    \/ MainStartDelivery
    \/ MainJoinStderr
    \/ MainJoinStdout
    \/ MainSendEof
    \/ MainJoinDelivery
    \/ MainWait
    \/ \E s \in Streams : ReaderRead(s)
    \/ \E s \in Streams : ReaderSend(s)
    \/ DeliveryConnect
    \/ DeliveryTrust
    \/ DeliveryRecv
    \/ DeliveryWrite

Spec == Init /\ [][Next]_vars

\* ------------------------------------------------------------ exit codes
\* The pipeline completed: the delivery thread consumed Eof and ended, which
\* needs the child spawned, the connection made and every write successful.
PipelineCompleted == dpc = "done"

\* C1: whenever the pipeline completes without a fatal delivery failure and
\* the child exits with numeric code c, the wrapper's exit code is exactly c:
\* after completion the process ends only through the child's status, and a
\* declared code is passed on unchanged.
ExitCodePreserved ==
    (exited /\ PipelineCompleted) =>
        /\ cause \in {"child", "nocode", "waiterr"}
        /\ childStatus.kind = "code" => (cause = "child" /\ exitCode = childStatus.code)

\* C1 witness: a run that delivered a record and ended with the child's 69.
ExitCodePreservedWitness ==
    /\ exited /\ PipelineCompleted
    /\ childStatus = [kind |-> "code", code |-> 69]
    /\ exitCode = 69
    /\ wire # <<>>

\* C2: a spawn failure ends the wrapper at once with code 40; no reader
\* thread, no delivery thread and no connection attempt was started.
SpawnFailureStartsNothing ==
    spawned = "failed" =>
        /\ exited /\ cause = "spawn"
        /\ exitCode = SpawnFailureCode
        /\ mpc = "spawn"
        /\ \A s \in Streams : rpc[s] = "idle"
        /\ dpc = "idle"
        /\ connects = 0
        /\ pushLog = <<>>

\* C2 witness: the spawn failed although the child would have had output
\* and a receiver was listening.
SpawnFailureWitness ==
    /\ spawned = "failed" /\ exited
    /\ listening
    /\ output["stdout"] # <<>>

\* C3 as stated: with the child spawned and nothing listening, the wrapper
\* always ends with the connect-failure code 127.
ConnectFailureAlways127 ==
    (exited /\ spawned = "ok" /\ ~listening) => exitCode = ConnectFailureCode

\* C3 amended: with the child spawned and nothing listening, the wrapper never
\* gets to the child's status or to code 40; it ends with 127, except that a
\* reader's panic on a line that is not valid UTF-8 can end it with 101 first.
ConnectFailureExit ==
    (exited /\ spawned = "ok" /\ ~listening) =>
        /\ cause \in {"connect", "panic"}
        /\ childStatus = NoStatus
        /\ exitCode # SpawnFailureCode
        /\ cause = "connect" => exitCode = ConnectFailureCode
        /\ cause = "panic" =>
            /\ exitCode = PanicExitCode
            /\ \E s \in Streams : rpc[s] = "panicked" /\ ~ValidUtf8(output[s])
        /\ (\A s \in Streams : ValidUtf8(output[s])) => exitCode = ConnectFailureCode

\* C3 witness: the connection failed after both readers had finished and the
\* supervisor had pushed Eof and was joining the delivery thread.
ConnectFailureWitness ==
    /\ exited /\ cause = "connect" /\ exitCode = ConnectFailureCode
    /\ mpc = "join_delivery"
    /\ \A s \in Streams : rpc[s] = "done"
    /\ Len(queue) >= 2

FailureCauses == {"spawn", "connect", "nocode"}

\* C4 as stated: the spawn-failure, connect-failure and no-exit-code codes are
\* pairwise distinct, so the exit code tells which of the three happened.
FailureCodesDistinct ==
    (exited /\ cause \in FailureCauses) =>
        /\ exitCode = SpawnFailureCode <=> cause = "spawn"
        /\ exitCode = ConnectFailureCode <=> cause = "connect"
        /\ exitCode = NoExitCode <=> cause = "nocode"

\* C4 amended: only two values are used: the connect failure has its own
\* code, the spawn failure and the child without an exit code share one.
FailureCodesTwoValues ==
    (exited /\ cause \in FailureCauses) =>
        /\ exitCode = ConnectFailureCode <=> cause = "connect"
        /\ exitCode = SpawnFailureCode <=> cause \in {"spawn", "nocode"}
        /\ exitCode = NoExitCode <=> cause \in {"spawn", "nocode"}

\* C4 witness: a child that ended without an exit code gave the wrapper the
\* spawn failure's code.
FailureCodesWitness ==
    /\ exited /\ cause = "nocode"
    /\ childStatus.kind = "nocode"
    /\ exitCode = SpawnFailureCode

\* ------------------------------------------------------------ queue and order
IsLine(item) == item.kind = "Line"
IsEof(item) == item.kind = "Eof"
IsPrefix(a, b) == Len(a) <= Len(b) /\ SubSeq(b, 1, Len(a)) = a

RECURSIVE Concat(_)
Concat(seqs) == IF seqs = <<>> THEN <<>> ELSE Head(seqs) \o Concat(Tail(seqs))

\* The payloads of reader s's Line items in a sequence of items, in order.
TextsOf(items, s) ==
    LET mine == SelectSeq(items, LAMBDA it : IsLine(it) /\ it.src = s)
    IN [i \in 1..Len(mine) |-> mine[i].text]

\* The MESSAGE fields of the records written for reader s's lines, in order.
WireMsgs(s) ==
    LET mine == SelectSeq(wire, LAMBDA r : r.src = s)
    IN [i \in 1..Len(mine) |-> mine[i].msg]

EofsPushed == SelectSeq(pushLog, IsEof)

\* C5: at most one Eof is ever pushed, by the supervisor, only after both
\* readers have finished, and exactly one once the supervisor has passed its
\* send; a reader that read zero bytes is done without having pushed one.
ExactlyOneEof ==
    /\ Len(EofsPushed) <= 1
    /\ \A i \in 1..Len(EofsPushed) : EofsPushed[i].src = "main"
    /\ Len(EofsPushed) = 1 =>
        /\ \A s \in Streams : rpc[s] = "done" /\ stream[s] = <<>>
        /\ IsEof(pushLog[Len(pushLog)])
    /\ mpc \in {"join_delivery", "wait_child"} => Len(EofsPushed) = 1
    /\ mpc \in {"spawn", "start_stdout", "start_stderr", "start_delivery", "join_stderr",
                "join_stdout", "send_eof"} => Len(EofsPushed) = 0

\* C5 witness: both readers pushed lines, stdout's first, both finished, and
\* the one Eof was pushed behind the lines.
ExactlyOneEofWitness ==
    /\ Len(EofsPushed) = 1
    /\ Len(pushLog) >= 3
    /\ readLog["stdout"] # <<>> /\ readLog["stderr"] # <<>>
    /\ IsLine(pushLog[1]) /\ pushLog[1].src = "stdout"

\* C6: Eof is the last item the delivery thread observes: when it has popped
\* Eof the queue is empty, everything ever pushed has been popped, Eof ends
\* the pops, and the thread has ended with no further write or connect.
EofIsLast ==
    (\E i \in 1..Len(popLog) : IsEof(popLog[i])) =>
        /\ IsEof(popLog[Len(popLog)])
        /\ \A i \in 1..(Len(popLog) - 1) : IsLine(popLog[i])
        /\ queue = <<>>
        /\ pushLog = popLog
        /\ dpc = "done" /\ cur = NoItem
        /\ Len(wire) = Len(popLog) - 1
        /\ connects = 1

\* C6 witness: Eof was popped after two lines had been written.
EofIsLastWitness ==
    /\ dpc = "done"
    /\ Len(popLog) >= 3
    /\ Len(wire) >= 2

\* C7: for each reader, the records written for its lines are, in order, a
\* prefix of the lines it read.
PerStreamOrder == \A s \in Streams : IsPrefix(WireMsgs(s), readLog[s])

\* C7 witness: two different lines of one stream are both on the wire.
PerStreamOrderWitness ==
    \E s \in Streams :
        /\ Len(WireMsgs(s)) >= 2
        /\ WireMsgs(s)[1] # WireMsgs(s)[2]

\* C8: when the wrapper exits with the child's exit code, every line read by
\* either reader has been popped once and written as one record, in read
\* order per stream; nothing is left in the queue, in a reader or in a stream.
FinalDrain ==
    (exited /\ cause = "child") =>
        /\ queue = <<>>
        /\ cur = NoItem
        /\ \A s \in Streams :
            /\ rpc[s] = "done" /\ stream[s] = <<>> /\ line[s] = <<>>
            /\ TextsOf(popLog, s) = readLog[s]
            /\ WireMsgs(s) = readLog[s]
        /\ Len(wire) = Len(readLog["stdout"]) + Len(readLog["stderr"])
        /\ wire = [i \in 1..Len(wire) |-> Format(popLog[i])]

\* C8 witness: the wrapper exited with the child's code after lines of both
\* streams had been delivered.
FinalDrainWitness ==
    /\ exited /\ cause = "child"
    /\ readLog["stdout"] # <<>> /\ readLog["stderr"] # <<>>
    /\ Len(wire) >= 2

\* C9 as stated: the queue never holds more than a fixed capacity, and a
\* reader's push at capacity is blocked.
QueueBounded ==
    /\ Len(queue) <= QueueCapacity
    /\ \A s \in Streams :
        (~exited /\ rpc[s] = "send" /\ rxAlive /\ Len(queue) >= QueueCapacity)
            => ~ENABLED ReaderSend(s)

\* C9 amended: the queue is unbounded: a push is never blocked, whatever the
\* queue holds, and while the delivery thread has popped nothing the queue
\* holds every item pushed so far.
PushNeverBlocks ==
    /\ \A s \in Streams : (~exited /\ rpc[s] = "send") => ENABLED ReaderSend(s)
    /\ (~exited /\ mpc = "send_eof") => ENABLED MainSendEof
    /\ (popLog = <<>> /\ rxAlive) => queue = pushLog

\* C9 witness: the delivery thread is still connecting, the queue already
\* holds QueueCapacity lines and a reader is about to push one more.
PushNeverBlocksWitness ==
    \E s \in Streams :
        /\ ~exited /\ rpc[s] = "send" /\ rxAlive
        /\ dpc = "connect"
        /\ Len(queue) >= QueueCapacity

\* ------------------------------------------------------------ line splitting
NewlineCount(bytes) == Cardinality({i \in 1..Len(bytes) : bytes[i] = NL})
EndsWithNewline(bytes) == bytes # <<>> /\ bytes[Len(bytes)] = NL
\* 1 when the bytes end in a non-empty piece with no newline after it.
TailCount(bytes) == IF bytes # <<>> /\ ~EndsWithNewline(bytes) THEN 1 ELSE 0

\* C10 as stated: a finished reader produced as many Line items as its stream
\* has newline-terminated lines, each ending with its terminator.
ItemsAreTerminatedLines ==
    \A s \in Streams :
        rpc[s] = "done" =>
            LET items == TextsOf(pushLog, s)
            IN /\ Len(items) = NewlineCount(output[s])
               /\ \A i \in 1..Len(items) : EndsWithNewline(items[i])
               /\ Concat(items) = SubSeq(output[s], 1, Len(Concat(items)))

\* C10 amended: a finished reader's items, concatenated, are its stream byte
\* for byte; there is one item per newline-terminated line plus one for a
\* non-empty unterminated tail, which is the last item and has no terminator.
ItemsAreLinesAndTail ==
    \A s \in Streams :
        rpc[s] = "done" =>
            LET items == TextsOf(pushLog, s)
            IN /\ Concat(items) = output[s]
               /\ Len(items) = NewlineCount(output[s]) + TailCount(output[s])
               /\ \A i \in 1..Len(items) :
                    /\ items[i] # <<>>
                    /\ NewlineCount(items[i]) <= 1
                    /\ i < Len(items) => EndsWithNewline(items[i])
               /\ items = readLog[s]

\* C10 witness: a stream of one terminated line followed by an unterminated
\* tail gave two items.
ItemsAreLinesAndTailWitness ==
    \E s \in Streams :
        /\ rpc[s] = "done"
        /\ output[s] = <<"a", NL, "a">>
        /\ Len(TextsOf(pushLog, s)) = 2

\* ------------------------------------------------------------ Sender::start
\* The worker of src/src/sender.rs: the thread Sender::start spawns runs
\* retry(Exponential::from_millis(10).take(3), operation), where operation
\* connects, then receives and writes until Eof; every `?` that fails ends
\* the operation with Err, which retry() answers with the next delay or,
\* when the delays are used up, by returning Err.  It takes the place of the
\* delivery closure of main.rs: it is given the Receiver, and main joins the
\* handle it returns.

\* Values of --max-retries tried.
MaxRetriesArgs == {0, MaxRetries, DefaultMaxRetries}

\* The k-th delay of Exponential::from_millis(BackoffBase), in milliseconds.
Delay(k) == BackoffBase ^ k

\* Connect outcomes: nothing listening always fails; a listening receiver
\* may still refuse or drop a connection.
ConnectOutcomes == {ok \in BOOLEAN : ok => listening}

SenderOutputs == {o \in Outputs : \A s \in Streams : ValidUtf8(o[s])}

SenderInit ==
    /\ output \in SenderOutputs
    /\ stream = output
    /\ rpc = [s \in Streams |-> "idle"]
    /\ line = [s \in Streams |-> <<>>]
    /\ readLog = [s \in Streams |-> <<>>]
    /\ queue = <<>>
    /\ rxAlive = TRUE
    /\ pushLog = <<>>
    /\ popLog = <<>>
    /\ mpc = "spawn"
    /\ spawned = "pending"
    /\ dpc = "idle"
    /\ cur = NoItem
    /\ wire = <<>>
    /\ connects = 0
    /\ listening \in BOOLEAN
    /\ trustFile = "none"
    /\ serverCert \in {"public", "private"}
    /\ maxRetries \in MaxRetriesArgs
    /\ retries = 0
    /\ slept = <<>>
    /\ shook = FALSE
    /\ fate = <<>>
    /\ consec = 0
    /\ childStatus = NoStatus
    /\ exited = FALSE
    /\ exitCode = 0
    /\ cause = "running"

\* retry(): the operation returned Err.  With a delay left in the iterator it
\* sleeps and calls the operation again; with none left it returns Err, the
\* thread ends and the operation's Receiver is dropped.
RetryOrGiveUp ==
    /\ consec' = consec + 1
    /\ shook' = FALSE
    /\ IF retries < MaxRetries
       THEN /\ retries' = retries + 1
            /\ slept' = Append(slept, Delay(retries + 1))
            /\ dpc' = "connect"
            /\ UNCHANGED <<queue, rxAlive>>
       ELSE /\ dpc' = "failed"
            /\ rxAlive' = FALSE
            /\ queue' = <<>>
            /\ UNCHANGED <<retries, slept>>

\* TcpStream::connect(..)? and ClientConnection::new(..)?
SenderConnect ==
    /\ ~exited /\ dpc = "connect"
    /\ connects' = connects + 1
    /\ \E ok \in ConnectOutcomes :
        IF ok
        THEN /\ dpc' = "recv"
             /\ shook' = FALSE
             /\ UNCHANGED <<queue, rxAlive, retries, slept, consec>>
        ELSE RetryOrGiveUp
    /\ UNCHANGED <<envVars, spawned, readerVars, pushLog, cur, wire, popLog, fate, mpc,
                   childStatus, exitVars>>

\* receiver.recv()?; Eof => break, then `return Ok(())` ends retry().
SenderRecv ==
    /\ ~exited /\ dpc = "recv"
    /\ queue # <<>>
    /\ LET item == Head(queue)
       IN /\ queue' = Tail(queue)
          /\ popLog' = Append(popLog, item)
          /\ IF item.kind = "Eof"
             THEN /\ dpc' = "done"
                  /\ rxAlive' = FALSE
                  /\ fate' = Append(fate, "eof")
                  /\ UNCHANGED cur
             ELSE /\ dpc' = "write"
                  /\ cur' = item
                  /\ fate' = Append(fate, "held")
                  /\ UNCHANGED rxAlive
    /\ UNCHANGED <<envVars, spawned, readerVars, pushLog, wire, connects, retries,
                   slept, shook, consec, mpc, childStatus, exitVars>>

\* A worker that puts the line back at the head of the queue when its write
\* fails, so that it is written again after the reconnect.
SenderWriteRequeues ==
    /\ ~exited /\ dpc = "write"
    /\ \E io \in BOOLEAN :
        IF io /\ (shook \/ HandshakeOk)
        THEN /\ wire' = Append(wire, Format(cur))
             /\ fate' = [fate EXCEPT ![Len(fate)] = "written"]
             /\ shook' = TRUE
             /\ consec' = 0
             /\ dpc' = "recv"
             /\ UNCHANGED <<queue, rxAlive, retries, slept>>
        ELSE /\ fate' = [fate EXCEPT ![Len(fate)] = "lost"]
             /\ consec' = consec + 1
             /\ shook' = FALSE
             /\ IF retries < MaxRetries
                THEN /\ retries' = retries + 1
                     /\ slept' = Append(slept, Delay(retries + 1))
                     /\ dpc' = "connect"
                     /\ queue' = <<cur>> \o queue
                     /\ UNCHANGED rxAlive
                ELSE /\ dpc' = "failed"
                     /\ rxAlive' = FALSE
                     /\ queue' = <<>>
                     /\ UNCHANGED <<retries, slept>>
             /\ UNCHANGED wire
    /\ cur' = NoItem
    /\ UNCHANGED <<envVars, spawned, readerVars, pushLog, connects, popLog, mpc,
                   childStatus, exitVars>>

\* stream.write(formatted.as_bytes())?: the first write on a connection
\* carries the TLS handshake.  On Err the popped line is gone with the
\* operation's locals.
SenderWrite ==
    /\ ~exited /\ dpc = "write"
    /\ \E io \in BOOLEAN :
        IF io /\ (shook \/ HandshakeOk)
        THEN /\ wire' = Append(wire, Format(cur))
             /\ fate' = [fate EXCEPT ![Len(fate)] = "written"]
             /\ shook' = TRUE
             /\ consec' = 0
             /\ dpc' = "recv"
             /\ UNCHANGED <<queue, rxAlive, retries, slept>>
        ELSE /\ fate' = [fate EXCEPT ![Len(fate)] = "lost"]
             /\ RetryOrGiveUp
             /\ UNCHANGED wire
    /\ cur' = NoItem
    /\ UNCHANGED <<envVars, spawned, readerVars, pushLog, connects, popLog, mpc,
                   childStatus, exitVars>>

SenderNext ==
    \/ MainSpawn
    \/ MainStartStdout
    \/ MainStartStderr
    \/ MainStartDelivery
    \/ MainJoinStderr
    \/ MainJoinStdout
    \/ MainSendEof
    \/ MainJoinDelivery
    \/ MainWait
    \/ \E s \in Streams : ReaderRead(s)
    \/ \E s \in Streams : ReaderSend(s)
    \/ SenderConnect
    \/ SenderRecv
    \/ SenderWrite

SpecSender == SenderInit /\ [][SenderNext]_vars

\* ------------------------------------------------------------ retry claims
\* C11: a failed connection attempt is one retry attempt and is not fatal by
\* itself: the wrapper gives up on connecting only after more than one
\* failed attempt.
ConnectFailureIsRetried == cause = "connect" => connects > 1

MainStep ==
    \/ MainSpawn
    \/ MainStartStdout
    \/ MainStartStderr
    \/ MainStartDelivery
    \/ MainJoinStderr
    \/ MainJoinStdout
    \/ MainSendEof
    \/ MainJoinDelivery
    \/ MainWait

ReaderStep(s) == ReaderRead(s) \/ ReaderSend(s)

DeliveryStep == DeliveryConnect \/ DeliveryTrust \/ DeliveryRecv \/ DeliveryWrite

Fairness ==
    /\ WF_vars(MainStep)
    /\ \A s \in Streams : WF_vars(ReaderStep(s))
    /\ WF_vars(DeliveryStep)

FairSpec == Spec /\ Fairness

\* The delivery thread has failed: it called exit(127) or it panicked.
WorkerFatal == cause = "connect" \/ dpc = "panicked"

ChildCauses == {"child", "nocode", "waiterr"}

AbandonsAfterMaxRetries == dpc = "failed" => retries = maxRetries

\* C17: the limit counts consecutive failures: the worker gives up only when
\* MaxRetries + 1 operations in a row failed with no successful write between
\* them, and a delay slept right after a success is the base delay.
LimitCountsConsecutiveFailures ==
    /\ dpc = "failed" => consec = MaxRetries + 1
    /\ (consec = 1 /\ slept # <<>>) => slept[Len(slept)] = BackoffBase

\* ------------------------------------------------------------ in-flight loss
\* The records for the popped items whose write succeeded, in pop order.
WrittenItems ==
    LET idx == SelectSeq([i \in 1..Len(popLog) |-> i], LAMBDA i : fate[i] = "written")
    IN [k \in 1..Len(idx) |-> Format(popLog[idx[k]])]

UntrustedNeverSucceeds ==
    (trustFile = "none" /\ serverCert = "private" /\ exited) => cause \notin ChildCauses

\* C16: when a trust file is given, no connection attempt is made before the
\* file has been opened and parsed.
TrustFileBeforeNetwork ==
    (trustFile # "none" /\ connects > 0) => dpc \in {"recv", "write", "done", "panicked"}

\* ------------------------------------------------------------ channel errors
\* C19: after the delivery thread has panicked, a reader's send panics the
\* reader, the supervisor never gets past its Eof send and its joins, and
\* the only way the process ends is the supervisor's panic.
ChannelErrorIsFatal ==
    [][dpc = "panicked" =>
        /\ \A s \in Streams :
            (rpc[s] = "send" /\ rpc'[s] # "send") => rpc'[s] = "panicked"
        /\ mpc' # "wait_child"
        /\ (mpc \in {"send_eof", "join_delivery"} /\ <<mpc, exited>>' # <<mpc, exited>>)
            => exited'
        /\ exited' => (exitCode' = PanicExitCode /\ cause' = "panic")]_vars

\* The worker failed on a write before Eof, a reader of valid output then
\* failed to send, and the process ended.
ChannelErrorIsFatalWitness ==
    /\ exited /\ dpc = "panicked"
    /\ \A i \in 1..Len(popLog) : IsLine(popLog[i])
    /\ \E s \in Streams : rpc[s] = "panicked" /\ ValidUtf8(output[s])

\* ------------------------------------------------------------ shutdown
\* C20: shutdown cannot get stuck: as long as the wrapper has not exited some
\* thread can take a step, and under fair scheduling every run ends with the
\* wrapper's exit; a run in which nothing failed ends on the child's status.
ShutdownTerminates ==
    /\ [](~exited => ENABLED Next)
    /\ <>exited
    /\ [](exited /\ dpc = "done" => cause \in ChildCauses)

\* Both streams carried output, every line was delivered, and the wrapper
\* ended on the child's status.
ShutdownTerminatesWitness ==
    /\ exited /\ dpc = "done" /\ cause \in ChildCauses
    /\ \A s \in Streams : output[s] # <<>>
    /\ Len(wire) >= 2

====
